---- MODULE Spec2Model ----
(***************************************************************************)
(* Model of monocle/gerrit/review.py: ReviewesFetcher.get (the paginated   *)
(* fetch of Gerrit changes) and ReviewesFetcher.extract_objects (the       *)
(* transform of raw changes into Change and event records).                *)
(*                                                                         *)
(* Conventions.                                                            *)
(*  - A Python dict is a TLA+ record; an absent key is an absent field     *)
(*    (tested with \in DOMAIN), never a field with a placeholder.          *)
(*  - Python None is the empty tuple NoneV.                                *)
(*  - A formatted string is the tuple of its parts: "%s/%s" % (n, a) is    *)
(*    <<n, a>>, 'CCE' + id is <<"CCE", id>>.                               *)
(*  - A Gerrit timestamp 'YYYY-MM-DD HH:MM:SS.fffffffff' is <<secs, frac>>,*)
(*    the db timestamp 'YYYY-MM-DDTHH:MM:SSZ' is <<secs>>.                 *)
(*  - A message text is the tuple of its characters, drawn from a few      *)
(*    character classes (see the section on messages).                     *)
(***************************************************************************)
EXTENDS Integers, Sequences, FiniteSets, TLC

VARIABLES
    pc,           \* position of the running call
    start_after,  \* get(): local start_after
    reviews,      \* get(): local reviews
    requests,     \* get(): the requests issued so far, [n, start]
    served,       \* get(): the responses received so far
    result,       \* get(): the returned list
    reviewes,     \* extract_objects(): its argument
    objects       \* extract_objects(): its local objects / return value

vars == <<pc, start_after, reviews, requests, served, result, reviewes, objects>>

NoneV == <<>>

Last(s) == s[Len(s)]

RECURSIVE Flatten(_)
Flatten(ss) == IF ss = <<>> THEN <<>> ELSE Head(ss) \o Flatten(Tail(ss))

RECURSIVE SeqsUpTo(_, _)
SeqsUpTo(S, n) ==
    IF n = 0 THEN {<<>>}
    ELSE LET shorter == SeqsUpTo(S, n - 1)
         IN  shorter \cup {Append(s, x) : s \in {t \in shorter : Len(t) = n - 1}, x \in S}

(***************************************************************************)
(* get(): the paginated fetch                                              *)
(***************************************************************************)
MaxPageLen == 2    \* longest page the server returns
MaxRequests == 3   \* the server's data ends within this many requests

count == 100

\* A raw change as get() sees it; rid is its rank in the server's data, and
\* '_more_changes' is absent, false or true.
RawRecord(rid, flag) ==
    IF flag = "absent" THEN [rid |-> rid]
    ELSE [rid |-> rid, _more_changes |-> (flag = "true")]

\* the pages the server may send after it has sent the first `sent` records
Pages(sent) ==
    {[i \in 1..Len(flags) |-> RawRecord(sent + i, flags[i])] :
        flags \in SeqsUpTo({"absent", "false", "true"}, MaxPageLen)}

\* the records the server has sent
RECURSIVE Sent(_)
Sent(resps) ==
    IF resps = <<>> THEN 0
    ELSE (IF Head(resps).kind = "page" THEN Len(Head(resps).page) ELSE 0)
             + Sent(Tail(resps))

\* requests.get raises, json.loads raises, or the body decodes to a page
Responses(sent) ==
    {[kind |-> "transport_error"], [kind |-> "decode_error"]}
        \cup [kind : {"page"}, page : Pages(sent)]

\* (mutant) the page replaces the accumulated list
Extend_replace(acc, page) == page

\* reviews.extend(_reviewes)
Extend(acc, page) == acc \o page

\* reviews[-1].get('_more_changes')
MoreChanges(acc) ==
    LET last == Last(acc)
    IN  IF "_more_changes" \in DOMAIN last THEN last._more_changes ELSE FALSE

\* (mutant) the offset advances by the size of the page just read
NextStart_pagesize(acc, page) == Len(page)

\* start_after = len(reviews)
NextStart(acc, page) == Len(acc)

\* '&n=%s&start=%s' % (count, start_after)
Request(start) == [n |-> count, start |-> start]

\* (mutant) the failure is swallowed and the pages read so far are returned
Propagate_partial(acc) == [pc |-> "returned", result |-> acc]

\* no try/except around requests.get and json.loads: the exception leaves get()
Propagate(acc) == [pc |-> "raised", result |-> <<>>]

StopsPaging(resp) ==
    IF resp.kind # "page" THEN TRUE
    ELSE IF resp.page = <<>> THEN TRUE
    ELSE ~MoreChanges(resp.page)

Get ==
    /\ pc = "idle"
    /\ pc' = "get"
    /\ start_after' = 0
    /\ reviews' = <<>>
    /\ UNCHANGED <<requests, served, result, reviewes, objects>>

GetPage ==
    /\ pc = "get"
    /\ \E resp \in Responses(Sent(served)) :
        /\ Len(requests) + 1 = MaxRequests => StopsPaging(resp)
        /\ requests' = Append(requests, Request(start_after))
        /\ served' = Append(served, resp)
        /\ IF resp.kind # "page"
           THEN /\ pc' = Propagate(reviews).pc
                /\ result' = Propagate(reviews).result
                /\ UNCHANGED <<reviews, start_after>>
           ELSE IF resp.page # <<>>
           THEN LET acc == Extend(reviews, resp.page)
                IN  /\ reviews' = acc
                    /\ IF MoreChanges(acc)
                       THEN /\ start_after' = NextStart(acc, resp.page)
                            /\ UNCHANGED <<pc, result>>
                       ELSE /\ pc' = "returned"
                            /\ result' = acc
                            /\ UNCHANGED start_after
           ELSE /\ pc' = "returned"
                /\ result' = reviews
                /\ UNCHANGED <<reviews, start_after>>
    /\ UNCHANGED <<reviewes, objects>>

InitGet ==
    /\ pc = "idle"
    /\ start_after = 0
    /\ reviews = <<>>
    /\ requests = <<>>
    /\ served = <<>>
    /\ result = <<>>
    /\ reviewes = <<>>
    /\ objects = <<>>

NextGet == Get \/ GetPage

SpecGet == InitGet /\ [][NextGet]_vars

(***************************************************************************)
(* extract_objects(): dates, attributions, the Change record               *)
(***************************************************************************)
Has(d, k) == k \in DOMAIN d

\* d[k] = v
Put(d, k, v) == (k :> v) @@ d

\* self.status_map
status_map == [NEW |-> "OPEN", MERGED |-> "MERGED", ABANDONED |-> "CLOSED"]

\* self.status_map[review['status']] raises KeyError
StatusRaises(review) == review.status \notin DOMAIN status_map

\* convert_date_for_db: str_date[:-10] cuts the '.fffffffff' suffix, and
\* strptime raises unless what is left is 'YYYY-MM-DD HH:MM:SS'
DateRaises(raw) == Len(raw) # 2

convert_date_for_db(raw) == <<raw[1]>>

\* "%s/%s" % (acct.get('name'), acct['_account_id'])
AttributionRaises(acct) == ~Has(acct, "_account_id")

Attribution(acct) ==
    <<IF Has(acct, "name") THEN acct.name ELSE "None", acct._account_id>>

\* (mutant) the difference is taken the other way round
timedelta_swapped(start, end) == end[1] - start[1]

\* timedelta(start, end): int((start - end).total_seconds())
timedelta(start, end) == start[1] - end[1]

\* strptime(None, format) raises TypeError
TimedeltaRaises(start, end) == start = NoneV \/ end = NoneV

\* review.get('submitted') is truthy
Submitted(review) == Has(review, "submitted") /\ review.submitted # NoneV

\* the dict literal of extract_pr_objects (the fields the events and the
\* claims use)
ChangeLiteral(review) ==
    [type       |-> "Change",
     id         |-> review.id,
     number     |-> review._number,
     author     |-> Attribution(review.owner),
     updated_at |-> convert_date_for_db(review.updated),
     created_at |-> convert_date_for_db(review.created),
     merged_at  |-> IF Submitted(review)
                    THEN convert_date_for_db(review.submitted)
                    ELSE NoneV,
     state      |-> status_map[review.status]]

\* change['closed_at'] = ...
WithClosedAt(c) ==
    LET c1 == IF c.state = "CLOSED" THEN Put(c, "closed_at", c.updated_at) ELSE c
    IN  IF c1.state = "MERGED" THEN Put(c1, "closed_at", c1.merged_at) ELSE c1

\* change['duration'] = timedelta(change['closed_at'], change['created_at'])
WithDuration(c) ==
    IF c.state \in {"CLOSED", "MERGED"}
    THEN Put(c, "duration", timedelta(c.closed_at, c.created_at))
    ELSE c

\* change['merged_by'] = ...
WithMergedBy(c, review) ==
    IF c.state = "MERGED"
    THEN IF Has(review, "submitter")
         THEN Put(c, "merged_by", Attribution(review.submitter))
         ELSE c
    ELSE Put(c, "merged_by", NoneV)

\* the Change record as appended to objects
Change(review) == WithMergedBy(WithDuration(WithClosedAt(ChangeLiteral(review))), review)

\* building the Change record raises
ChangeRaises(review) ==
    \/ \E k \in {"id", "_number", "owner", "updated", "created", "status"} : ~Has(review, k)
    \/ AttributionRaises(review.owner)
    \/ DateRaises(review.updated)
    \/ DateRaises(review.created)
    \/ Submitted(review) /\ DateRaises(review.submitted)
    \/ StatusRaises(review)
    \/ review.status = "MERGED"
           /\ TimedeltaRaises(IF Submitted(review)
                              THEN convert_date_for_db(review.submitted)
                              ELSE NoneV,
                              convert_date_for_db(review.created))
    \/ review.status = "MERGED" /\ Has(review, "submitter")
           /\ AttributionRaises(review.submitter)

\* insert_change_attributes(obj, change)
insert_change_attributes(obj, change) ==
    [number        |-> change.number,
     on_author     |-> change.author,
     on_created_at |-> change.created_at] @@ obj

ChangeCreatedEvent(change) ==
    insert_change_attributes(
        [type       |-> "ChangeCreatedEvent",
         id         |-> <<"CCE">> \o change.id,
         created_at |-> change.created_at,
         author     |-> change.author], change)

\* change.get('merged_by')
GetMergedBy(change) == IF Has(change, "merged_by") THEN change.merged_by ELSE NoneV

\* if change['state'] in ('MERGED', 'CLOSED'): objects.append(...)
CloseEvents(change) ==
    IF change.state \in {"MERGED", "CLOSED"}
    THEN <<insert_change_attributes(
            [type       |-> IF change.state = "MERGED"
                            THEN "ChangeMergedEvent"
                            ELSE "ChangeAbandonedEvent",
             id         |-> <<"CCLE">> \o change.id,
             created_at |-> change.closed_at,
             author     |-> GetMergedBy(change)], change)>>
    ELSE <<>>

(***************************************************************************)
(* extract_objects(): messages.  A message text is a tuple of tokens: one  *)
(* character each, except that the two literals the code looks for and     *)
(* plain words (letters and inner '-', no space, digit at the end or sign  *)
(* before a digit) are single tokens.                                      *)
(***************************************************************************)
Uploaded == "Uploaded patch set "
PatchSet == "Patch Set "
Digits == {"0", "1", "2", "3", "4", "5", "6", "7", "8", "9"}
Signs == {"+", "-"}

\* [^ ] : the two literals contain a space, so [^ ]+ cannot run over them
NonSpace(c) == c \notin {" ", Uploaded, PatchSet}

\* . : anything but a newline
Dot(c) == c # "\n"

\* comment['message'].startswith('Uploaded patch set ')
StartsWithUploaded(t) == t # <<>> /\ t[1] = Uploaded

\* \d+ at position i: every position where it can end (greedy, then backtracking)
RECURSIVE DigitsEnd(_, _)
DigitsEnd(t, i) ==
    IF i <= Len(t) /\ t[i] \in Digits THEN DigitsEnd(t, i + 1) \cup {i + 1} ELSE {}

\* [^ ]+ at position i
RECURSIVE NonSpacesEnd(_, _)
NonSpacesEnd(t, i) ==
    IF i <= Len(t) /\ NonSpace(t[i]) THEN NonSpacesEnd(t, i + 1) \cup {i + 1} ELSE {}

\* ( [^ ]+[+-]\d+)? at position i
VoteEnd(t, i) ==
    {i} \cup
    IF i <= Len(t) /\ t[i] = " "
    THEN UNION {IF j <= Len(t) /\ t[j] \in Signs THEN DigitsEnd(t, j + 1) ELSE {} :
                    j \in NonSpacesEnd(t, i + 1)}
    ELSE {}

\* (mutant) the pattern without its trailing .+
BodyMatches_nobody(t, i) == i + 1 <= Len(t) /\ t[i] = "\n" /\ t[i + 1] = "\n"

\* \n\n.+ at position i
BodyMatches(t, i) ==
    i + 2 <= Len(t) /\ t[i] = "\n" /\ t[i + 1] = "\n" /\ Dot(t[i + 2])

\* self.message_re.match(comment['message'])
message_re_match(t) ==
    /\ t # <<>>
    /\ t[1] = PatchSet
    /\ \E j \in DigitsEnd(t, 2) :
          /\ j <= Len(t)
          /\ t[j] = ":"
          /\ \E k \in VoteEnd(t, j + 1) : BodyMatches(t, k)

\* the event of one message, as appended to objects
MessageEvent(type, comment, change) ==
    insert_change_attributes(
        [type       |-> type,
         id         |-> comment.id,
         created_at |-> convert_date_for_db(comment.date),
         author     |-> Attribution(comment.author)], change)

\* one turn of: for comment in review['messages']
MessageEvents(comment, change) ==
    IF StartsWithUploaded(comment.message)
    THEN <<MessageEvent("ChangeCommitPushedEvent", comment, change)>>
    ELSE IF message_re_match(comment.message)
    THEN <<MessageEvent("ChangeCommentedEvent", comment, change)>>
    ELSE <<>>

MessageRaises(comment) ==
    \/ ~Has(comment, "message")
    \/ /\ StartsWithUploaded(comment.message) \/ message_re_match(comment.message)
       /\ \/ \E k \in {"id", "date", "author"} : ~Has(comment, k)
          \/ DateRaises(comment.date)
          \/ AttributionRaises(comment.author)

(***************************************************************************)
(* extract_objects(): labels.  review['labels'] is a dict, modelled as the *)
(* sequence of its items [label, all] in iteration order.                  *)
(***************************************************************************)
\* the decimal digits of a small natural number
Dec(n) == IF n = 0 THEN "0" ELSE <<"1", "2", "3", "4", "5", "6", "7", "8", "9">>[n]

\* str(value)
Str(v) == IF v < 0 THEN <<"-", Dec(-v)>> ELSE <<Dec(v)>>

\* (mutant) a '+' in front of every value
Approval_plus(label, value) == <<label, "+">> \o Str(value)

\* "%s%s" % (label, "+%s" % value if not str(value).startswith('-') else value)
Approval(label, value) ==
    IF Str(value)[1] # "-" THEN <<label, "+">> \o Str(value) ELSE <<label>> \o Str(value)

\* 'date' in _review and 'value' in _review
IsVote(entry) == Has(entry, "date") /\ Has(entry, "value")

\* "%s_%s_%s_%s" % (date, label, value, account id)
ReviewId(label, entry) ==
    convert_date_for_db(entry.date) \o <<label>> \o Str(entry.value)
        \o <<entry._account_id>>

ChangeReviewedEvent(label, entry, change) ==
    insert_change_attributes(
        [type       |-> "ChangeReviewedEvent",
         id         |-> ReviewId(label, entry),
         created_at |-> convert_date_for_db(entry.date),
         author     |-> Attribution(entry),
         approval   |-> Approval(label, entry.value)], change)

\* review['labels'][label].get('all', [])
AllOf(item) == IF Has(item, "all") THEN item.all ELSE <<>>

\* one turn of: for _review in review['labels'][label].get('all', [])
EntryEvents(label, entry, change) ==
    IF IsVote(entry) THEN <<ChangeReviewedEvent(label, entry, change)>> ELSE <<>>

EntryRaises(entry) ==
    IsVote(entry) /\ (DateRaises(entry.date) \/ AttributionRaises(entry))

\* one turn of: for label in review['labels']
LabelEvents(item, change) ==
    Flatten([i \in 1..Len(AllOf(item)) |-> EntryEvents(item.label, AllOf(item)[i], change)])

(***************************************************************************)
(* extract_objects(): one record, and the batch                            *)
(***************************************************************************)
AllMessageEvents(review, change) ==
    Flatten([i \in 1..Len(review.messages) |-> MessageEvents(review.messages[i], change)])

AllLabelEvents(review, change) ==
    Flatten([i \in 1..Len(review.labels) |-> LabelEvents(review.labels[i], change)])

MessagesRaise(review) ==
    \/ ~Has(review, "messages")
    \/ \E i \in 1..Len(review.messages) : MessageRaises(review.messages[i])

LabelsRaise(review) ==
    \/ ~Has(review, "labels")
    \/ \E i \in 1..Len(review.labels) :
          \E j \in 1..Len(AllOf(review.labels[i])) : EntryRaises(AllOf(review.labels[i])[j])

\* extract_pr_objects(review) raises
Raises(review) == ChangeRaises(review) \/ MessagesRaise(review) \/ LabelsRaise(review)

\* (mutant) the label events come before the message events
extract_pr_objects_labelsFirst(review) ==
    LET change == Change(review)
    IN  <<change, ChangeCreatedEvent(change)>>
            \o CloseEvents(change)
            \o AllLabelEvents(review, change)
            \o AllMessageEvents(review, change)

\* extract_pr_objects(review), when it returns
extract_pr_objects(review) ==
    LET change == Change(review)
    IN  <<change, ChangeCreatedEvent(change)>>
            \o CloseEvents(change)
            \o AllMessageEvents(review, change)
            \o AllLabelEvents(review, change)

\* (mutant) the objects built before the failure stay in the result
TryExtract_partial(review) ==
    IF ChangeRaises(review) THEN <<>>
    ELSE IF Raises(review)
    THEN LET change == Change(review)
         IN  <<change, ChangeCreatedEvent(change)>> \o CloseEvents(change)
    ELSE extract_pr_objects(review)

\* try: objects.extend(extract_pr_objects(review)) except Exception: log
TryExtract(review) == IF Raises(review) THEN <<>> ELSE extract_pr_objects(review)

\* for review in reviewes: ...; return objects
extract_objects(revs) == Flatten([i \in 1..Len(revs) |-> TryExtract(revs[i])])

\* one call of extract_objects(revs)
ExtractObjects(revs) ==
    /\ reviewes' = revs
    /\ objects' = extract_objects(revs)
    /\ pc' = "extracted"
    /\ UNCHANGED <<start_after, reviews, requests, served, result>>

(***************************************************************************)
(* the raw changes the specifications draw from                            *)
(***************************************************************************)
Alice == [name |-> "alice", _account_id |-> 7]
Bob == [name |-> "bob", _account_id |-> 8]

\* a well-formed open change without messages and labels
BaseReview ==
    [id       |-> <<"I1">>,
     _number  |-> 1,
     status   |-> "NEW",
     owner    |-> Alice,
     created  |-> <<10, 0>>,
     updated  |-> <<20, 5>>,
     messages |-> <<>>,
     labels   |-> <<>>]

\* ---- messages ----
MaxVoteLen == 4    \* tokens between the header and the end of the text
MaxNewlines == 3   \* newlines before the last token of the text

Headers ==
    {<<>>, <<Uploaded>>, <<PatchSet, "3", ":">>, <<PatchSet, "1", "2", ":">>,
     <<PatchSet, ":">>, <<PatchSet, "3">>, <<"Re", PatchSet, "3", ":">>}

Votes == SeqsUpTo({" ", "Code-Review", "+", "-", "2", "\n"}, MaxVoteLen)

Bodies ==
    {[i \in 1..n |-> "\n"] \o e : n \in 0..MaxNewlines, e \in {<<>>, <<"Looks good">>}}

MsgReview(text) ==
    Put(BaseReview, "messages",
        <<[id |-> <<"m1">>, message |-> text, date |-> <<30, 1>>, author |-> Bob]>>)

ExtractMessage ==
    /\ pc = "idle"
    /\ \E h \in Headers, v \in Votes, b \in Bodies :
          ExtractObjects(<<MsgReview(h \o v \o b)>>)

NextMsg == ExtractMessage

SpecMsg == InitGet /\ [][NextMsg]_vars

\* ---- labels ----
MaxVoters == 2     \* entries under 'all' of the first label
MaxValue == 1      \* votes range over -MaxValue..MaxValue

\* the fields an entry of 'all' may carry
EntryFields ==
    {f \in [date : {NoneV, <<40, 3>>}, value : (-MaxValue - 1)..MaxValue,
            _account_id : {0, 7}] : TRUE}

\* an entry of 'all': NoneV, -MaxValue - 1 and 0 above stand for "key absent"
Entry(f) ==
    LET e0 == [name |-> "carol"]
        e1 == IF f.date # NoneV THEN Put(e0, "date", f.date) ELSE e0
        e2 == IF f.value >= -MaxValue THEN Put(e1, "value", f.value) ELSE e1
    IN  IF f._account_id # 0 THEN Put(e2, "_account_id", f._account_id) ELSE e2

Entries == {Entry(f) : f \in EntryFields}

SecondLabels ==
    {<<>>, <<[label |-> "Verified"]>>}
        \cup {<<[label |-> "Verified", all |-> <<e>>]>> : e \in Entries}

ExtractLabels ==
    /\ pc = "idle"
    /\ \E all \in SeqsUpTo(Entries, MaxVoters), second \in SecondLabels :
          ExtractObjects(<<Put(BaseReview, "labels",
                               <<[label |-> "Code-Review", all |-> all]>> \o second)>>)

NextLabel == ExtractLabels

SpecLabel == InitGet /\ [][NextLabel]_vars

\* ---- single changes ----
MaxSecs == 2       \* timestamps range over 10..10 + MaxSecs seconds
MaxMessages == 2   \* messages of a change

UploadText == <<Uploaded, "1", ".">>
CommentText == <<PatchSet, "1", ":", " ", "Code-Review", "+", "2", "\n", "\n", "Looks good">>
VoteText == <<PatchSet, "1", ":", " ", "Code-Review", "+", "2">>

\* the j-th message of the change numbered n
Message(n, j, text) ==
    [id |-> <<n, j>>, message |-> text, date |-> <<30 + j, 1>>, author |-> Bob]

Messages(n, texts) == [j \in 1..Len(texts) |-> Message(n, j, texts[j])]

Vote(value) == [name |-> "carol", _account_id |-> 7, date |-> <<40, 3>>, value |-> value]

LabelChoices ==
    {<<>>,
     <<[label |-> "Code-Review", all |-> <<Vote(1)>>]>>,
     <<[label |-> "Code-Review", all |-> <<[name |-> "dave", _account_id |-> 9], Vote(2)>>],
       [label |-> "Verified", all |-> <<Vote(-1)>>]>>}

Times == {<<10 + k, 5>> : k \in 0..MaxSecs}

\* optional keys of the raw change
WithOptional(review, key, choice) ==
    IF choice = NoneV THEN review ELSE Put(review, key, choice[1])

ExtractChange ==
    /\ pc = "idle"
    /\ \E status \in {"NEW", "MERGED", "ABANDONED", "DRAFT"},
          updated \in Times,
          submitted \in {NoneV} \cup {<<t>> : t \in Times},
          submitter \in {NoneV, <<Bob>>, <<[_account_id |-> 9]>>},
          texts \in SeqsUpTo({UploadText, CommentText, VoteText}, MaxMessages),
          labels \in LabelChoices :
          ExtractObjects(
              <<WithOptional(WithOptional(
                    [BaseReview EXCEPT !.status = status, !.updated = updated,
                                       !.messages = Messages(1, texts),
                                       !.labels = labels],
                    "submitted", submitted), "submitter", submitter)>>)

NextChange == ExtractChange

SpecChange == InitGet /\ [][NextChange]_vars

\* ---- batches ----
MaxReviews == 2    \* raw changes of a batch

\* messages and labels of a raw change of a batch; the second of each makes
\* extraction fail after the Change record was built
BatchTexts == {<<>>, <<UploadText, CommentText>>}

BrokenMessages(n) ==
    <<Message(n, 1, UploadText),
      [id |-> <<n, 2>>, message |-> CommentText, date |-> <<32, 1>>]>>

BatchLabels ==
    {<<>>,
     <<[label |-> "Code-Review", all |-> <<Vote(1)>>]>>,
     <<[label |-> "Code-Review", all |-> <<[name |-> "erin", date |-> <<40, 3>>, value |-> 1]>>]>>}

\* the n-th raw change of a batch
BatchReviews(n) ==
    {WithOptional(
        [BaseReview EXCEPT !.id = <<"I", n>>, !._number = n, !.status = st[1],
                           !.messages = messages, !.labels = labels],
        "submitted", st[2]) :
        st \in {<<"NEW", NoneV>>, <<"MERGED", <<<<12, 5>>>> >>, <<"MERGED", NoneV>>,
                <<"ABANDONED", NoneV>>, <<"DRAFT", NoneV>>},
        messages \in {Messages(n, texts) : texts \in BatchTexts} \cup {BrokenMessages(n)},
        labels \in BatchLabels}

RECURSIVE Batches(_)
Batches(n) ==
    IF n = 0 THEN {<<>>}
    ELSE LET shorter == Batches(n - 1)
         IN  shorter \cup {Append(b, r) : b \in {c \in shorter : Len(c) = n - 1},
                                          r \in BatchReviews(n)}

ExtractBatch ==
    /\ pc = "idle"
    /\ \E revs \in Batches(MaxReviews) : ExtractObjects(revs)

NextBatch == ExtractBatch

SpecBatch == InitGet /\ [][NextBatch]_vars

\* ---- properties of get() ----
PageOf(resp) == IF resp.kind = "page" THEN resp.page ELSE <<>>

ServedPages == [i \in 1..Len(served) |-> PageOf(served[i])]

Truthy(rec) == "_more_changes" \in DOMAIN rec /\ rec._more_changes = TRUE

\* a page after which the fetch must stop
IsLastPage(p) == p = <<>> \/ ~Truthy(p[Len(p)])

\* C1: get() returns exactly the concatenation, in server order, of the pages
\* it was served; the page that ends the fetch is empty or has no truthy
\* '_more_changes' on its last record, and it is the first such page served
\* (every request was issued after pages that asked for more only).
C1_ReturnsConcatenationAndStops ==
    /\ \A i \in 1..(Len(served) - 1) :
           served[i].kind = "page" /\ ~IsLastPage(served[i].page)
    /\ Len(requests) = Len(served)
    /\ pc = "returned" =>
           /\ served # <<>>
           /\ result = Flatten(ServedPages)
           /\ Last(served).kind = "page"
           /\ IsLastPage(Last(served).page)

C1_Witness ==
    /\ pc = "returned"
    /\ Len(served) = 3
    /\ Len(served[1].page) = 1
    /\ Len(served[2].page) = 2
    /\ served[3].page = <<>>
    /\ [i \in 1..Len(result) |-> result[i].rid] = <<1, 2, 3>>

\* C2: every request has n = 100 and start = the number of records of all
\* earlier pages; whether the fetch goes on after a non-empty page is decided
\* by the '_more_changes' of its last record alone.
C2_OffsetIsCumulativeCount ==
    /\ \A i \in 1..Len(requests) :
           /\ requests[i].n = 100
           /\ requests[i].start = Len(Flatten(SubSeq(ServedPages, 1, i - 1)))
    /\ \A i \in 1..Len(served) :
           (served[i].kind = "page" /\ PageOf(served[i]) # <<>>) =>
               ((i < Len(served) \/ pc = "get") <=> Truthy(Last(served[i].page)))

C2_Witness ==
    /\ Len(requests) = 3
    /\ Len(PageOf(served[1])) = 2
    /\ Len(PageOf(served[2])) = 1
    /\ requests[3].start = 3
    /\ pc = "returned"
    /\ Len(PageOf(served[3])) = 2
    /\ Truthy(served[3].page[1])
    /\ ~Truthy(served[3].page[2])

\* C3: a failed page request ends get() with the error: nothing is returned
\* although earlier pages were read, and no request follows the failed one.
C3_FailurePropagates ==
    \A i \in 1..Len(served) :
        served[i].kind # "page" =>
            /\ i = Len(served)
            /\ Len(requests) = i
            /\ pc = "raised"
            /\ result = <<>>

C3_Witness ==
    /\ pc = "raised"
    /\ Len(served) = 3
    /\ Last(served).kind = "decode_error"
    /\ Len(reviews) >= 2

\* ---- properties of extract_objects() ----
IsMessageEvent(o) == o.type \in {"ChangeCommitPushedEvent", "ChangeCommentedEvent"}

IsReviewedEvent(o) == o.type = "ChangeReviewedEvent"

IsCloseEvent(o) == o.type \in {"ChangeMergedEvent", "ChangeAbandonedEvent"}

\* one call on a single raw change, whose extraction succeeded
OneExtracted == pc = "extracted" /\ Len(reviewes) = 1 /\ objects # <<>>

\* the grammar of a commenting message, as the specification words it
IsDigitRun(t) == t # <<>> /\ \A i \in 1..Len(t) : t[i] \in Digits

IsHeader(t) ==
    /\ Len(t) >= 3
    /\ t[1] = PatchSet
    /\ t[Len(t)] = ":"
    /\ IsDigitRun(SubSeq(t, 2, Len(t) - 1))

\* ' <label><sign><digits>', the label being a run of non-space characters
IsVoteToken(t) ==
    /\ Len(t) >= 4
    /\ t[1] = " "
    /\ \E sg \in 3..(Len(t) - 1) :
          /\ t[sg] \in Signs
          /\ \A i \in 2..(sg - 1) : NonSpace(t[i])
          /\ IsDigitRun(SubSeq(t, sg + 1, Len(t)))

\* a blank line, then a line that is not empty
IsBody(t) == Len(t) >= 3 /\ t[1] = "\n" /\ t[2] = "\n" /\ t[3] # "\n"

IsComment(t) ==
    \E a \in 0..Len(t) :
        \E b \in a..Len(t) :
            /\ IsHeader(SubSeq(t, 1, a))
            /\ a = b \/ IsVoteToken(SubSeq(t, a + 1, b))
            /\ IsBody(SubSeq(t, b + 1, Len(t)))

ClaimedMessageEvent(m) ==
    IF m.message # <<>> /\ m.message[1] = Uploaded
    THEN <<[type |-> "ChangeCommitPushedEvent", id |-> m.id]>>
    ELSE IF IsComment(m.message)
    THEN <<[type |-> "ChangeCommentedEvent", id |-> m.id]>>
    ELSE <<>>

VoteWithBody ==
    <<PatchSet, "3", ":", " ", "Code-Review", "+", "2", "\n", "\n", "Looks good">>

VoteOnly == <<PatchSet, "3", ":", " ", "Code-Review", "+", "2">>

\* C8: every message yields at most one event, with the id of the message: a
\* ChangeCommitPushedEvent if the text starts with 'Uploaded patch set ',
\* otherwise a ChangeCommentedEvent exactly if the text is a 'Patch Set <n>:'
\* header, an optional single vote token, a blank line and a non-empty line;
\* 'Patch Set 3: Code-Review+2\n\nLooks good' is a comment, the same text
\* without its body is not.
C8_MessageClassification ==
    OneExtracted =>
        LET msgs == reviewes[1].messages
            evs == SelectSeq(objects, IsMessageEvent)
        IN  /\ [i \in 1..Len(evs) |-> [type |-> evs[i].type, id |-> evs[i].id]]
                  = Flatten([i \in 1..Len(msgs) |-> ClaimedMessageEvent(msgs[i])])
            /\ \A i \in 1..Len(msgs) :
                  /\ Len(ClaimedMessageEvent(msgs[i])) <= 1
                  /\ msgs[i].message = VoteWithBody =>
                        \E j \in 1..Len(evs) :
                            evs[j].type = "ChangeCommentedEvent" /\ evs[j].id = msgs[i].id
                  /\ msgs[i].message = VoteOnly =>
                        \A j \in 1..Len(evs) : evs[j].id # msgs[i].id

C8_Witness ==
    /\ OneExtracted
    /\ Len(reviewes[1].messages) = 1
    /\ reviewes[1].messages[1].message = VoteWithBody
    /\ Len(objects) = 3
    /\ objects[3].type = "ChangeCommentedEvent"
    /\ objects[3].id = reviewes[1].messages[1].id

\* the votes of a raw change, in label and entry order, as the claim counts
\* them: the entries that carry both a date and a value
ClaimedVotes(review) ==
    Flatten([i \in 1..Len(review.labels) |->
        LET item == review.labels[i]
            all == IF "all" \in DOMAIN item THEN item.all ELSE <<>>
        IN  Flatten([j \in 1..Len(all) |->
                IF "date" \in DOMAIN all[j] /\ "value" \in DOMAIN all[j]
                THEN <<[label |-> item.label, entry |-> all[j]]>>
                ELSE <<>>])])

\* C9: of a change that extracts, every label entry with both a date and a
\* value yields exactly one ChangeReviewedEvent and no other entry yields one;
\* the approval is '<label>+<value>' for a positive and '<label><value>' (with
\* its '-') for a negative value, the id '<date>_<label>_<value>_<account id>'.
C9_ReviewedEvents ==
    OneExtracted =>
        LET votes == ClaimedVotes(reviewes[1])
            evs == SelectSeq(objects, IsReviewedEvent)
        IN  /\ Len(evs) = Len(votes)
            /\ \A k \in 1..Len(votes) :
                  LET label == votes[k].label
                      e == votes[k].entry
                      value == IF e.value < 0 THEN <<"-", Dec(-e.value)>>
                                               ELSE <<Dec(e.value)>>
                  IN  /\ evs[k].id = <<e.date[1], label>> \o value \o <<e._account_id>>
                      /\ e.value > 0 => evs[k].approval = <<label, "+", Dec(e.value)>>
                      /\ e.value < 0 => evs[k].approval = <<label, "-", Dec(-e.value)>>
                      /\ (label = "Code-Review" /\ e.value = -1) =>
                            evs[k].approval = <<"Code-Review", "-", "1">>

C9_Witness ==
    /\ OneExtracted
    /\ Len(reviewes[1].labels) = 2
    /\ Len(reviewes[1].labels[1].all) = 2
    /\ DOMAIN reviewes[1].labels[1].all[1] = {"name", "value", "_account_id"}
    /\ DOMAIN reviewes[1].labels[1].all[2] = {"name", "value", "date", "_account_id"}
    /\ Len(objects) = 4
    /\ objects[3].approval = <<"Code-Review", "-", "1">>
    /\ objects[4].approval = <<"Verified", "+", "1">>

\* the events the messages of a raw change yield, as C8 describes them
ClaimedMessageEvents(review) ==
    Flatten([i \in 1..Len(review.messages) |-> ClaimedMessageEvent(review.messages[i])])

\* position of the message with the given id in the message history
PosOf(msgs, id) == CHOOSE q \in 1..Len(msgs) : msgs[q].id = id

\* the order of the records of one change: Change, created event, close event
\* exactly for MERGED and CLOSED, message events in message order, then the
\* review events
PerChangeOrder(review, objs) ==
    LET n == Len(objs)
        closed == objs[1].state \in {"MERGED", "CLOSED"}
        k == IF closed THEN 3 ELSE 2
    IN  /\ n >= k
        /\ objs[1].type = "Change"
        /\ objs[2].type = "ChangeCreatedEvent"
        /\ objs[2].id = <<"CCE">> \o objs[1].id
        /\ closed =>
              /\ objs[3].id = <<"CCLE">> \o objs[1].id
              /\ objs[1].state = "MERGED" => objs[3].type = "ChangeMergedEvent"
              /\ objs[1].state = "CLOSED" => objs[3].type = "ChangeAbandonedEvent"
        /\ \A i \in (k + 1)..n : IsMessageEvent(objs[i]) \/ IsReviewedEvent(objs[i])
        /\ \A i \in (k + 1)..n : \A j \in (i + 1)..n :
              /\ ~(IsReviewedEvent(objs[i]) /\ IsMessageEvent(objs[j]))
              /\ (IsMessageEvent(objs[i]) /\ IsMessageEvent(objs[j])) =>
                    /\ \E q \in 1..Len(review.messages) : review.messages[q].id = objs[i].id
                    /\ \E q \in 1..Len(review.messages) : review.messages[q].id = objs[j].id
                    /\ PosOf(review.messages, objs[i].id) < PosOf(review.messages, objs[j].id)
        /\ Len(SelectSeq(objs, IsReviewedEvent)) = Len(ClaimedVotes(review))

\* C5 as stated: the per-change order, and a NEW change yields exactly its
\* Change record and its ChangeCreatedEvent.
C5_NewYieldsExactlyTwo ==
    OneExtracted =>
        /\ PerChangeOrder(reviewes[1], objects)
        /\ reviewes[1].status = "NEW" =>
              /\ objects[1].state = "OPEN"
              /\ Len(objects) = 2

\* C5 (amended): the per-change order, and a NEW change yields its Change
\* record with state OPEN and its ChangeCreatedEvent, followed only by the
\* events of its messages and label votes (exactly those two records when it
\* has none), and no merge or abandon event.
C5_PerChangeOrder ==
    OneExtracted =>
        /\ PerChangeOrder(reviewes[1], objects)
        /\ reviewes[1].status = "NEW" =>
              /\ objects[1].state = "OPEN"
              /\ \A i \in 1..Len(objects) : ~IsCloseEvent(objects[i])
              /\ Len(objects) = 2 + Len(ClaimedMessageEvents(reviewes[1]))
                                  + Len(ClaimedVotes(reviewes[1]))

C5_Witness ==
    /\ OneExtracted
    /\ reviewes[1].status = "NEW"
    /\ Len(reviewes[1].messages) = 2
    /\ Len(objects) = 6
    /\ objects[3].type = "ChangeCommentedEvent"
    /\ objects[4].type = "ChangeCommitPushedEvent"
    /\ objects[5].type = "ChangeReviewedEvent"

\* C6: of every Change record, closed_at is set exactly when state is MERGED
\* or CLOSED, it is merged_at when MERGED and updated_at when CLOSED, and
\* duration is present in exactly those states and is closed_at - created_at
\* in seconds.
C6_ClosedAtAndDuration ==
    \A i \in 1..Len(objects) :
        objects[i].type = "Change" =>
            LET c == objects[i]
            IN  /\ "closed_at" \in DOMAIN c <=> c.state \in {"MERGED", "CLOSED"}
                /\ "duration" \in DOMAIN c <=> c.state \in {"MERGED", "CLOSED"}
                /\ c.state = "MERGED" => c.closed_at = c.merged_at /\ c.closed_at # NoneV
                /\ c.state = "CLOSED" => c.closed_at = c.updated_at
                /\ c.state \in {"MERGED", "CLOSED"} =>
                      c.duration = c.closed_at[1] - c.created_at[1]

C6_Witness ==
    /\ OneExtracted
    /\ objects[1].state = "MERGED"
    /\ objects[1].merged_at # objects[1].updated_at
    /\ objects[1].closed_at = <<12>>
    /\ objects[1].created_at = <<10>>
    /\ objects[1].duration = 2

\* C7: every Change record carries merged_by: the submitter's '<name>/<id>'
\* when state is MERGED and the raw change has a submitter, None in every
\* other case; the author of the merge or abandon event is that merged_by.
C7_MergedByAlwaysPresent ==
    OneExtracted =>
        LET r == reviewes[1]
            c == objects[1]
        IN  /\ "merged_by" \in DOMAIN c
            /\ IF c.state = "MERGED" /\ "submitter" \in DOMAIN r
               THEN c.merged_by =
                        <<IF "name" \in DOMAIN r.submitter THEN r.submitter.name ELSE "None",
                          r.submitter._account_id>>
               ELSE c.merged_by = NoneV
            /\ \A i \in 1..Len(objects) :
                  IsCloseEvent(objects[i]) => objects[i].author = c.merged_by

\* the raw changes of a batch whose extraction fails
ClaimedMalformed(review) ==
    \/ review.status \notin {"NEW", "MERGED", "ABANDONED"}
    \/ review.status = "MERGED" /\ "submitted" \notin DOMAIN review
    \/ \E i \in 1..Len(review.messages) :
          /\ ClaimedMessageEvent(review.messages[i]) # <<>>
          /\ "author" \notin DOMAIN review.messages[i]
    \/ \E i \in 1..Len(ClaimedVotes(review)) :
          "_account_id" \notin DOMAIN ClaimedVotes(review)[i].entry

\* the records of objects that belong to the n-th raw change
OfChange(n, o) == o.number = n

\* C4: extract_objects returns, in input order, the complete outputs of the
\* raw changes whose extraction succeeds; a raw change whose extraction fails,
\* at the status lookup or after its first records were built, contributes
\* nothing and leaves the records of the others as they are.
C4_FailuresAreIsolated ==
    pc = "extracted" =>
        /\ \A i \in 1..Len(objects) : \A j \in (i + 1)..Len(objects) :
              objects[i].number <= objects[j].number
        /\ \A n \in 1..Len(reviewes) :
              LET group == SelectSeq(objects, LAMBDA o : OfChange(n, o))
              IN  IF ClaimedMalformed(reviewes[n])
                  THEN group = <<>>
                  ELSE /\ group # <<>>
                       /\ PerChangeOrder(reviewes[n], group)
                       /\ Len(group) = 2 + Len(SelectSeq(group, IsCloseEvent))
                                         + Len(ClaimedMessageEvents(reviewes[n]))
                                         + Len(ClaimedVotes(reviewes[n]))

C4_Witness ==
    /\ pc = "extracted"
    /\ Len(reviewes) = 2
    /\ reviewes[1].status = "NEW"
    /\ Len(reviewes[1].messages) = 2
    /\ "author" \notin DOMAIN reviewes[1].messages[2]
    /\ reviewes[2].status = "ABANDONED"
    /\ Len(objects) = 6
    /\ objects[1].number = 2

\* C10: no two event records of one extract_objects call have the same id.
C10_EventIdsUnique ==
    \A i \in 1..Len(objects) : \A j \in (i + 1)..Len(objects) :
        (objects[i].type # "Change" /\ objects[j].type # "Change") =>
            objects[i].id # objects[j].id

====
